---- MODULE Spec2Model ----
(***************************************************************************)
(* Model of gist/gist.py: the stratified subsampling job                   *)
(* (GetSubSamplingByState) and the similar-genomes job (GetSimilarGenomes).*)
(* External programs (sanitizers, augur, blast) are modelled at their      *)
(* interface: which process is started, with which file lists, and which   *)
(* identifier file it writes.                                              *)
(***************************************************************************)
EXTENDS Integers, Sequences, FiniteSets, TLC

VARIABLES
    cmd,        \* entry point: "get_states", "get_similar", "filter_blast_results"
    pc,         \* position of the calling thread
    existing,   \* paths that exist on disk (inputs of check_file / check_dir)
    jsonOk,     \* the schema file parses as JSON with the required fields
    schema,     \* valid_subsampling_schema: [states, countries, target_states]
    threads,    \* self.threads
    procs,      \* external processes started so far
    jobDir,     \* self.output_job_dir exists
    exitStatus, \* status passed to sys.exit, 0 while running
    jobs,       \* every future submitted so far, in submission order
    collected,  \* indexes of jobs whose result() was taken
    sub_sampling_target_states,
    sub_sampling_files,
    files,      \* contents of the identifier files in output_job_dir
    includeTarget,   \* --include of the target-only materialization
    includeCombined, \* --include of the combined materialization
    excludeList,     \* subsampling_files handed to _filter_gisaid's --exclude
    excInFlight,     \* stratum whose exception is propagating out of the with-block
    reported,        \* stratum failures visible to the caller of get_samples
    failedLog,       \* strata whose external filter invocation failed
    finished,        \* indexes of the jobs in the order their tasks ended
    hits,            \* rows of gisaid_blastn.tsv
    simSchema,       \* similarity schema
    result,          \* list returned by filter_blast_results
    rankOutcome      \* "none", "returned" or the exception raised

vars == <<cmd, pc, existing, jsonOk, schema, threads, procs, jobDir,
          exitStatus, jobs, collected, sub_sampling_target_states,
          sub_sampling_files, files, includeTarget, includeCombined,
          excludeList, excInFlight, reported, failedLog, finished,
          hits, simSchema, result, rankOutcome>>

inputV == <<cmd, existing, jsonOk, schema, threads, hits, simSchema>>
rankV == <<result, rankOutcome>>
listV == <<sub_sampling_target_states, sub_sampling_files>>
outV == <<includeTarget, includeCombined, excludeList>>

(* ------------------------------ bounds --------------------------------- *)
MaxStates == 2
MaxCountries == 1
MaxThreads == 2
MaxHits == 2

(* ------------------------------ helpers -------------------------------- *)
Range(s) == {s[i] : i \in 1..Len(s)}

SeqsUpTo(S, n) == UNION {[1..k -> S] : k \in 0..n}

Min(a, b) == IF a < b THEN a ELSE b

(* ---------------------- the sequence/metadata corpus ------------------- *)
Corpus ==
    { [id |-> "sp1", country |-> "Brazil",    division |-> "SaoPaulo", lineage |-> "P.1", when |-> "in"],
      [id |-> "sp2", country |-> "Brazil",    division |-> "SaoPaulo", lineage |-> "P.1", when |-> "in"],
      [id |-> "rj1", country |-> "Brazil",    division |-> "Rio",      lineage |-> "P.1", when |-> "in"],
      [id |-> "pr1", country |-> "Brazil",    division |-> "Parana",   lineage |-> "P.1", when |-> "in"],
      [id |-> "ar1", country |-> "Argentina", division |-> "none",     lineage |-> "P.1", when |-> "in"],
      [id |-> "ar2", country |-> "Argentina", division |-> "none",     lineage |-> "P.1", when |-> "in"],
      [id |-> "us1", country |-> "USA",       division |-> "none",     lineage |-> "P.1", when |-> "in"],
      [id |-> "og1", country |-> "China",     division |-> "none",     lineage |-> "A",   when |-> "before"] }

Ids == {g.id : g \in Corpus}

target_lineages == {"P.1"}
outgroup_lineages == {"A"}

(* strata a schema may list; "Parana" carries the sigla of "SaoPaulo" *)
StateStrata ==
    { [name |-> "SaoPaulo", sigla |-> "SP", max_genomes |-> 1],
      [name |-> "Rio",      sigla |-> "RJ", max_genomes |-> 2],
      [name |-> "Parana",   sigla |-> "SP", max_genomes |-> 2] }

CountryStrata ==
    { [name |-> "Argentina", sigla |-> "AR", max_genomes |-> 1] }

StateSiglas == {s.sigla : s \in StateStrata}

(* ------------------------- input files and checks ---------------------- *)
StatesPaths == {"sequences", "metadata", "subsampling_json_schema", "ncov_dir", "output_dir"}

SimilarPaths == {"input_file", "sequences", "metadata",
                 "get_similar_genomes_sampling_schema", "output_dir"}

\* gist.util.check_file / check_dir: raise when the path is absent
check_file(f, fs) == f \in fs
check_dir(d, fs) == d \in fs

\* gist.util.read_get_states_input: every target sigla names exactly one state
ValidSchema(s) ==
    \A t \in s.target_states :
        Cardinality({i \in 1..Len(s.states) : s.states[i].sigla = t}) = 1

read_get_states_input(ok, s) == ok /\ ValidSchema(s)
read_get_similar_genomes_input(ok) == ok

\* lines 29-32: no check raises
ChecksPassFilesOnly(fs) ==
    \A f \in {"sequences", "metadata", "subsampling_json_schema"} : check_file(f, fs)

ChecksPass(fs) ==
    /\ \A f \in {"sequences", "metadata", "subsampling_json_schema"} : check_file(f, fs)
    /\ \A d \in {"ncov_dir", "output_dir"} : check_dir(d, fs)

\* lines 245-252: no check raises
SimChecksPass(fs) ==
    /\ \A f \in {"input_file", "sequences", "metadata",
                  "get_similar_genomes_sampling_schema"} : check_file(f, fs)
    /\ check_dir("output_dir", fs)

(* ------------------------------ file names ----------------------------- *)
StateFile(sigla) == <<"state", sigla>>
CountryFile(sigla) == <<"country", sigla>>
OutgroupFile == <<"outgroup", "">>
GisaidFile == <<"gisaid", "">>

AllFiles ==
    {StateFile(s.sigla) : s \in StateStrata}
      \cup {CountryFile(c.sigla) : c \in CountryStrata}
      \cup {OutgroupFile, GisaidFile}

EmptySchema == [states |-> <<>>, countries |-> <<>>, target_states |-> {}]

NoFiles == [f \in AllFiles |-> {}]

SimSchemas ==
    { [min_id |-> 95, max_id |-> 100, max_number_of_similar_genomes |-> 1],
      [min_id |-> 90, max_id |-> 99,  max_number_of_similar_genomes |-> 2] }

\* alignment rows; qcovhsp is held in tenths of a percent
HitRows ==
    { [sseqid |-> "A", pident |-> 99, bitscore |-> 500, qcovhsp |-> 1000],
      [sseqid |-> "A", pident |-> 99, bitscore |-> 300, qcovhsp |-> 1000],
      [sseqid |-> "B", pident |-> 80, bitscore |-> 400, qcovhsp |-> 1000],
      [sseqid |-> "C", pident |-> 97, bitscore |-> 400, qcovhsp |-> 998] }

QcovMin == 999

(* -------------------------------- Init --------------------------------- *)
Quiet ==
    /\ procs = {}
    /\ jobDir = FALSE
    /\ exitStatus = 0
    /\ jobs = <<>>
    /\ collected = {}
    /\ sub_sampling_target_states = <<>>
    /\ sub_sampling_files = <<>>
    /\ files = NoFiles
    /\ includeTarget = <<>>
    /\ includeCombined = <<>>
    /\ excludeList = <<>>
    /\ excInFlight = {}
    /\ reported = {}
    /\ failedLog = {}
    /\ finished = <<>>
    /\ result = <<>>
    /\ rankOutcome = "none"

InitStates ==
    /\ cmd = "get_states"
    /\ pc = "check"
    /\ existing \in SUBSET StatesPaths
    /\ jsonOk \in BOOLEAN
    /\ \E st \in SeqsUpTo(StateStrata, MaxStates), co \in SeqsUpTo(CountryStrata, MaxCountries),
          ts \in SUBSET StateSiglas :
          /\ Len(st) >= 1
          /\ schema = [states |-> st, countries |-> co, target_states |-> ts]
    /\ threads \in 1..MaxThreads
    /\ hits = <<>>
    /\ simSchema = CHOOSE s \in SimSchemas : TRUE

InitSimilar ==
    /\ cmd = "get_similar"
    /\ pc = "check"
    /\ existing \in SUBSET SimilarPaths
    /\ jsonOk \in BOOLEAN
    /\ schema = EmptySchema
    /\ threads = 1
    /\ hits = <<>>
    /\ simSchema \in SimSchemas

InitRank ==
    /\ cmd = "filter_blast_results"
    /\ pc = "rank_call"
    /\ existing = {}
    /\ jsonOk = TRUE
    /\ schema = EmptySchema
    /\ threads = 1
    /\ hits \in SeqsUpTo(HitRows, MaxHits)
    /\ simSchema \in SimSchemas

Init == Quiet /\ (InitStates \/ InitSimilar \/ InitRank)

(* ----------------- GetSubSamplingByState.__init__ ---------------------- *)
\* lines 28-36
CheckInputs ==
    /\ cmd = "get_states"
    /\ pc = "check"
    /\ IF ChecksPass(existing)
       THEN pc' = "validate" /\ exitStatus' = exitStatus
       ELSE pc' = "exit" /\ exitStatus' = 1
    /\ UNCHANGED <<inputV, finished, rankV, listV, outV, procs, jobDir, jobs, collected,
                   files, excInFlight, reported, failedLog>>

\* lines 37-41
ValidateSchema ==
    /\ cmd = "get_states"
    /\ pc = "validate"
    /\ IF read_get_states_input(jsonOk, schema)
       THEN pc' = "sanitize_sequences" /\ exitStatus' = exitStatus
       ELSE pc' = "exit" /\ exitStatus' = 1
    /\ UNCHANGED <<inputV, finished, rankV, listV, outV, procs, jobDir, jobs, collected,
                   files, excInFlight, reported, failedLog>>

\* lines 61-71 and 55-59
sanitize_sequences ==
    /\ pc = "sanitize_sequences"
    /\ jobDir' = TRUE
    /\ procs' = procs \cup {"sanitize_sequences.py", "augur index"}
    /\ pc' = "sanitize_metadata"
    /\ UNCHANGED <<finished, cmd, existing, jsonOk, schema, threads, exitStatus, jobs,
                   collected, sub_sampling_target_states, sub_sampling_files,
                   files, includeTarget, includeCombined, excludeList,
                   excInFlight, reported, failedLog, hits,
                   simSchema, result, rankOutcome>>

\* lines 73-83; get_global (219-221) and _filter_gisaid (138-140) then enter get_samples
sanitize_metadata ==
    /\ pc = "sanitize_metadata"
    /\ procs' = procs \cup {"sanitize_metadata.py"}
    /\ pc' = "state_submit"
    /\ UNCHANGED <<finished, cmd, existing, jsonOk, schema, threads, jobDir, exitStatus, jobs,
                   collected, sub_sampling_target_states, sub_sampling_files,
                   files, includeTarget, includeCombined, excludeList,
                   excInFlight, reported, failedLog, hits,
                   simSchema, result, rankOutcome>>

(* ---------------------- the filtering engine (augur) ------------------- *)
\* --subsample-max-sequences: any subset of the matches of the capped size
Subsample(S, cap) == {T \in SUBSET S : Cardinality(T) = Min(cap, Cardinality(S))}

\* query of _filter_state, lines 91-95
StateMatches(st) ==
    {g.id : g \in {h \in Corpus : /\ h.country = "Brazil"
                                  /\ h.division = st.name
                                  /\ h.lineage \in target_lineages
                                  /\ h.when = "in"}}

\* query of _filter_country, lines 109-113
CountryMatches(co) ==
    {g.id : g \in {h \in Corpus : /\ h.country = co.name
                                  /\ h.lineage \in target_lineages
                                  /\ h.when = "in"}}

\* query of _filter_outgroup, lines 127-130
OutgroupMatches ==
    {g.id : g \in {h \in Corpus : /\ h.lineage \in outgroup_lineages
                                  /\ h.when = "before"}}

\* strains listed in the files of an --include / --exclude argument
StrainsOf(fileList, fs) == UNION {fs[f] : f \in Range(fileList)}

\* query of _filter_gisaid, lines 145-149
GisaidMatches(excluded) ==
    {g.id : g \in {h \in Corpus : /\ h.country # "Brazil"
                                  /\ h.lineage \in target_lineages
                                  /\ h.when = "in"
                                  /\ h.id \notin excluded}}

(* ------------------------------ the futures ---------------------------- *)
\* lines 87 and 105: the file a stratum task writes
Output(j) ==
    IF j.kind = "state" THEN StateFile(j.stratum.sigla) ELSE CountryFile(j.stratum.sigla)

Matches(j) ==
    IF j.kind = "state" THEN StateMatches(j.stratum) ELSE CountryMatches(j.stratum)

Failure(j) == [sigla |-> j.stratum.sigla, kind |-> j.kind]

Batch(js, k) == {i \in 1..Len(js) : js[i].kind = k}

BatchOf(p) == IF p \in {"state_submit", "state_collect", "state_exit"}
              THEN "state" ELSE "country"

Strata(s, k) == IF k = "state" THEN s.states ELSE s.countries

\* Future.result() returns or raises only once the task has finished
JobFinishedOnceStarted(j) == j.st # "pending"

JobFinished(j) == j.st \in {"done", "raised"}

\* lines 168 and 181: results are taken in submission order
NextToCollectAsCompleted(js, col, k) == Batch(js, k) \ col

NextToCollect(js, col, k) ==
    {i \in Batch(js, k) \ col : \A j \in Batch(js, k) \ col : i <= j}

\* line 170
IsTargetInverted(j, s) == j.kind = "state" /\ j.stratum.sigla \notin s.target_states

IsTarget(j, s) == j.kind = "state" /\ j.stratum.sigla \in s.target_states

\* leaving the with-block: ThreadPoolExecutor.__exit__ is shutdown(wait=True)
ShutdownNoWait(js, k) == TRUE

ShutdownWait(js, k) == \A i \in Batch(js, k) : JobFinished(js[i])

\* line 175
HasCountries(s) == s.countries # <<>>

\* line 209: --include of the combined materialization
CombinedIncludeWithTargets(t, f) == t \o f

CombinedInclude(t, f) == f

\* lines 214-217
get_samples_returnFilesOnly(t, f, s) == f

get_samples_return(t, f, s) == IF s.target_states # {} THEN t \o f ELSE f


(* --------------------------- get_samples ------------------------------- *)
\* lines 163-166 and 178-180: executor.submit
Submit ==
    /\ pc \in {"state_submit", "country_submit"}
    /\ LET k == BatchOf(pc)
           n == Cardinality(Batch(jobs, k))
           strata == Strata(schema, k)
       IN /\ n < Len(strata)
          /\ jobs' = Append(jobs, [kind |-> k, stratum |-> strata[n + 1], st |-> "pending"])
          /\ pc' = IF n + 1 = Len(strata)
                   THEN (IF k = "state" THEN "state_collect" ELSE "country_collect")
                   ELSE pc
    /\ UNCHANGED <<inputV, finished, rankV, listV, outV, procs, jobDir, exitStatus,
                   collected, files, excInFlight, reported, failedLog>>

\* a worker thread takes the next work item of its pool and starts the filter
StartTask(i) ==
    /\ i \in 1..Len(jobs)
    /\ jobs[i].st = "pending"
    /\ \A j \in Batch(jobs, jobs[i].kind) : j < i => jobs[j].st # "pending"
    /\ Cardinality({j \in Batch(jobs, jobs[i].kind) : jobs[j].st = "running"}) < threads
    /\ jobs' = [jobs EXCEPT ![i].st = "running"]
    /\ procs' = procs \cup {"augur filter"}
    /\ UNCHANGED <<inputV, finished, rankV, listV, outV, pc, jobDir, exitStatus,
                   collected, files, excInFlight, reported, failedLog>>

\* lines 85-101 / 103-119: the filter succeeds and writes its identifier file
TaskOk(i) ==
    /\ i \in 1..Len(jobs)
    /\ jobs[i].st = "running"
    /\ \E T \in Subsample(Matches(jobs[i]), jobs[i].stratum.max_genomes) :
          files' = [files EXCEPT ![Output(jobs[i])] = T]
    /\ jobs' = [jobs EXCEPT ![i].st = "done"]
    /\ finished' = Append(finished, i)
    /\ UNCHANGED <<inputV, rankV, listV, outV, pc, procs, jobDir, exitStatus,
                   collected, excInFlight, reported, failedLog>>

\* lines 99 / 117: subprocess.run without check: a failure status is dropped
TaskStatus(i) ==
    /\ i \in 1..Len(jobs)
    /\ jobs[i].st = "running"
    /\ jobs' = [jobs EXCEPT ![i].st = "done"]
    /\ failedLog' = failedLog \cup {Failure(jobs[i])}
    /\ finished' = Append(finished, i)
    /\ UNCHANGED <<inputV, rankV, listV, outV, pc, procs, jobDir, exitStatus,
                   collected, files, excInFlight, reported>>

\* the task function raises (subprocess.run cannot start the shell)
TaskRaise(i) ==
    /\ i \in 1..Len(jobs)
    /\ jobs[i].st = "running"
    /\ jobs' = [jobs EXCEPT ![i].st = "raised"]
    /\ failedLog' = failedLog \cup {Failure(jobs[i])}
    /\ finished' = Append(finished, i)
    /\ UNCHANGED <<inputV, rankV, listV, outV, pc, procs, jobDir, exitStatus,
                   collected, files, excInFlight, reported>>

\* lines 168-173 and 181-183: job.result() and the append
Collect(i) ==
    /\ pc \in {"state_collect", "country_collect"}
    /\ i \in NextToCollect(jobs, collected, BatchOf(pc))
    /\ JobFinished(jobs[i])
    /\ LET k == BatchOf(pc)
           exitPc == IF k = "state" THEN "state_exit" ELSE "country_exit"
       IN IF jobs[i].st = "raised"
          THEN /\ excInFlight' = {Failure(jobs[i])}
               /\ pc' = exitPc
               /\ UNCHANGED <<collected, listV>>
          ELSE /\ collected' = collected \cup {i}
               /\ IF IsTarget(jobs[i], schema)
                  THEN /\ sub_sampling_target_states' =
                              Append(sub_sampling_target_states, Output(jobs[i]))
                       /\ UNCHANGED sub_sampling_files
                  ELSE /\ sub_sampling_files' = Append(sub_sampling_files, Output(jobs[i]))
                       /\ UNCHANGED sub_sampling_target_states
               /\ pc' = IF Batch(jobs, k) \subseteq collected' THEN exitPc ELSE pc
               /\ UNCHANGED excInFlight
    /\ UNCHANGED <<inputV, finished, rankV, outV, procs, jobDir, exitStatus, jobs,
                   files, reported, failedLog>>

\* end of the with-block (lines 161/176): wait for the pool, then go on or re-raise
ExecutorExit ==
    /\ pc \in {"state_exit", "country_exit"}
    /\ ShutdownWait(jobs, BatchOf(pc))
    /\ IF excInFlight # {}
       THEN pc' = "raised" /\ reported' = excInFlight
       ELSE /\ pc' = IF pc = "state_exit" /\ HasCountries(schema)
                     THEN "country_submit" ELSE "outgroup"
            /\ UNCHANGED reported
    /\ UNCHANGED <<inputV, finished, rankV, listV, outV, procs, jobDir, exitStatus, jobs,
                   collected, files, excInFlight, failedLog>>

\* line 185 with lines 121-136
filter_outgroup ==
    /\ pc = "outgroup"
    /\ \E ok \in BOOLEAN :
          IF ok
          THEN /\ \E T \in Subsample(OutgroupMatches, 30) :
                      files' = [files EXCEPT ![OutgroupFile] = T]
               /\ UNCHANGED failedLog
          ELSE /\ failedLog' = failedLog \cup {[sigla |-> "", kind |-> "outgroup"]}
               /\ UNCHANGED files
    /\ sub_sampling_files' = Append(sub_sampling_files, OutgroupFile)
    /\ procs' = procs \cup {"augur filter"}
    /\ pc' = IF schema.target_states # {} THEN "materialize_target" ELSE "materialize_combined"
    /\ UNCHANGED <<inputV, finished, rankV, outV, sub_sampling_target_states, jobDir,
                   exitStatus, jobs, collected, excInFlight, reported>>

\* lines 191-202
MaterializeTarget ==
    /\ pc = "materialize_target"
    /\ includeTarget' = sub_sampling_target_states
    /\ procs' = procs \cup {"augur filter"}
    /\ pc' = "materialize_combined"
    /\ UNCHANGED <<inputV, finished, rankV, listV, includeCombined, excludeList, jobDir,
                   exitStatus, jobs, collected, files, excInFlight, reported, failedLog>>

\* lines 204-217; the value returned is _filter_gisaid's subsampling_files (line 140)
MaterializeCombined ==
    /\ pc = "materialize_combined"
    /\ includeCombined' = CombinedInclude(sub_sampling_target_states, sub_sampling_files)
    /\ excludeList' = get_samples_return(sub_sampling_target_states, sub_sampling_files, schema)
    /\ procs' = procs \cup {"augur filter"}
    /\ pc' = "filter_gisaid"
    /\ UNCHANGED <<inputV, finished, rankV, listV, includeTarget, jobDir,
                   exitStatus, jobs, collected, files, excInFlight, reported, failedLog>>

\* lines 141-155
filter_gisaid ==
    /\ pc = "filter_gisaid"
    /\ files' = [files EXCEPT ![GisaidFile] = GisaidMatches(StrainsOf(excludeList, files))]
    /\ procs' = procs \cup {"augur filter"}
    /\ pc' = "get_global"
    /\ UNCHANGED <<inputV, finished, rankV, listV, outV, jobDir,
                   exitStatus, jobs, collected, excInFlight, reported, failedLog>>

\* lines 223-231
get_global ==
    /\ pc = "get_global"
    /\ procs' = procs \cup {"augur filter"}
    /\ pc' = "done"
    /\ UNCHANGED <<inputV, finished, rankV, listV, outV, jobDir, files,
                   exitStatus, jobs, collected, excInFlight, reported, failedLog>>

(* ------------------------- GetSimilarGenomes --------------------------- *)
\* lines 244-256
SimCheckInputs ==
    /\ cmd = "get_similar"
    /\ pc = "check"
    /\ IF SimChecksPass(existing)
       THEN pc' = "validate" /\ exitStatus' = exitStatus
       ELSE pc' = "exit" /\ exitStatus' = 1
    /\ UNCHANGED <<inputV, finished, rankV, listV, outV, procs, jobDir, jobs, collected,
                   files, excInFlight, reported, failedLog>>

\* lines 257-263
SimValidateSchema ==
    /\ cmd = "get_similar"
    /\ pc = "validate"
    /\ IF read_get_similar_genomes_input(jsonOk)
       THEN pc' = "create_blast_database" /\ exitStatus' = exitStatus
       ELSE pc' = "exit" /\ exitStatus' = 1
    /\ UNCHANGED <<inputV, finished, rankV, listV, outV, procs, jobDir, jobs, collected,
                   files, excInFlight, reported, failedLog>>

\* lines 274-276
create_blast_database ==
    /\ pc = "create_blast_database"
    /\ procs' = procs \cup {"makeblastdb"}
    /\ pc' = "perform_blast"
    /\ UNCHANGED <<inputV, finished, rankV, listV, outV, jobDir, exitStatus, jobs, collected,
                   files, excInFlight, reported, failedLog>>

\* lines 278-289: the command object is built, then the undefined name cline
\* is called, so blastn is never started
perform_blast ==
    /\ pc = "perform_blast"
    /\ pc' = "raised"
    /\ rankOutcome' = "NameError"
    /\ UNCHANGED <<inputV, finished, result, listV, outV, procs, jobDir, exitStatus, jobs,
                   collected, files, excInFlight, reported, failedLog>>

\* line 297: rows with qcovhsp >= 99.9
QcovFilter(h) == SelectSeq(h, LAMBDA r : r.qcovhsp >= QcovMin)

\* lines 291-315: after the coverage filter, line 300 reads the undefined name
\* dblast_results_dff, so no list is returned
filter_blast_results ==
    /\ pc = "rank_call"
    /\ LET blast_results_df == QcovFilter(hits)
       IN /\ Len(blast_results_df) <= Len(hits)
          /\ rankOutcome' = "NameError"
          /\ result' = result
    /\ pc' = "raised"
    /\ UNCHANGED <<inputV, finished, listV, outV, procs, jobDir, exitStatus, jobs,
                   collected, files, excInFlight, reported, failedLog>>

(* ------------------------------ vocabulary ----------------------------- *)
InJob == cmd = "get_states"

AfterStateBatch == {"country_submit", "country_collect", "country_exit", "outgroup",
                    "materialize_target", "materialize_combined", "filter_gisaid",
                    "get_global", "done"}

AfterAllBatches == {"outgroup", "materialize_target", "materialize_combined",
                    "filter_gisaid", "get_global", "done"}

ListsBuilt == {"materialize_target", "materialize_combined", "filter_gisaid",
               "get_global", "done"}

\* get_samples has returned to _filter_gisaid
Returned == InJob /\ pc \in {"filter_gisaid", "get_global", "done"}

\* _filter_gisaid has run
Complemented == InJob /\ pc \in {"get_global", "done"}

TargetFiles ==
    {StateFile(st.sigla) : st \in {x \in Range(schema.states) : x.sigla \in schema.target_states}}

NonTargetStateFiles ==
    {StateFile(st.sigla) : st \in {x \in Range(schema.states) : x.sigla \notin schema.target_states}}

CountryFiles == {CountryFile(co.sigla) : co \in Range(schema.countries)}

StratumFiles == TargetFiles \cup NonTargetStateFiles \cup CountryFiles \cup {OutgroupFile}

BatchFailures == {f \in failedLog : f.kind \in {"state", "country"}}

(* -------------------------------- claims ------------------------------- *)

C2_ComplementDisjoint ==
    Complemented
        => /\ Range(excludeList) = StratumFiles
           /\ files[GisaidFile] \cap UNION {files[f] : f \in StratumFiles} = {}

C2_Witness ==
    /\ InJob /\ pc = "done"
    /\ schema.target_states # {}
    /\ NonTargetStateFiles # {}
    /\ \E f \in CountryFiles : files[f] # {}
    /\ files[GisaidFile] # {}
    /\ finished # <<>> /\ finished[1] # 1

\* C3: when a stratum task has failed, the failure reaches the caller of
\* get_samples only when every task submitted to the batch has ended; none is
\* left pending or running.
C3_FailureAfterBatch ==
    (InJob /\ (pc = "raised" \/ reported # {}))
        => /\ \E i \in 1..Len(jobs) : jobs[i].st = "raised"
           /\ \A i \in 1..Len(jobs) : JobFinished(jobs[i])
           /\ \A f \in reported :
                 Cardinality(Batch(jobs, f.kind)) = Len(Strata(schema, f.kind))

C3_Witness ==
    /\ InJob /\ pc = "raised"
    /\ \E i, j \in 1..Len(jobs) :
          /\ i < j
          /\ jobs[i].kind = jobs[j].kind
          /\ jobs[i].st = "raised"
          /\ jobs[j].st = "done"
          /\ \E a, b \in 1..Len(finished) : a < b /\ finished[a] = i /\ finished[b] = j

\* C4 as stated: when get_samples ends, the failures reported to its caller
\* are all the strata of the batches whose filter invocation failed, a failure
\* status included.
C4_AllFailuresReported ==
    (InJob /\ pc \in {"raised", "done"}) => reported = BatchFailures

Passes(r) ==
    /\ r.qcovhsp >= QcovMin
    /\ r.pident >= simSchema.min_id
    /\ r.pident <= simSchema.max_id

PassingScores(id) == {hits[i].bitscore : i \in {k \in 1..Len(hits) : hits[k].sseqid = id /\ Passes(hits[k])}}

BestScore(id) == CHOOSE b \in PassingScores(id) : \A c \in PassingScores(id) : c <= b

\* C6 as stated: filter_blast_results returns a list of at most
\* max_number_of_similar_genomes ids, without repetition, each id having a hit
\* that passes the thresholds, ordered by non-increasing best bit score.
C6_RankedList ==
    (cmd = "filter_blast_results" /\ pc # "rank_call")
        => /\ rankOutcome = "returned"
           /\ Len(result) <= simSchema.max_number_of_similar_genomes
           /\ \A i, j \in 1..Len(result) : i # j => result[i] # result[j]
           /\ \A i \in 1..Len(result) : PassingScores(result[i]) # {}
           /\ \A i \in 1..Len(result) : i < Len(result)
                 => BestScore(result[i]) >= BestScore(result[i + 1])

AllChecksOk ==
    IF cmd = "get_states"
    THEN existing = StatesPaths /\ jsonOk /\ ValidSchema(schema)
    ELSE existing = SimilarPaths /\ jsonOk

\* C7: a job whose file, directory or schema check fails exits with status 1
\* without having started a process or created the job directory, and a
\* process is started or the directory created only when all checks passed.
C7_ChecksBeforeProcesses ==
    cmd \in {"get_states", "get_similar"}
        => /\ (exitStatus # 0 => exitStatus = 1 /\ pc = "exit" /\ procs = {} /\ ~jobDir)
           /\ ((procs # {} \/ jobDir) => AllChecksOk)
           /\ ((~AllChecksOk /\ pc \notin {"check", "validate"})
                 => pc = "exit" /\ exitStatus = 1)

C7_Witness ==
    /\ InJob /\ pc = "exit" /\ exitStatus = 1
    /\ existing = StatesPaths /\ jsonOk
    /\ ~ValidSchema(schema)

\* C8: a stage after a batch starts only when every stratum of the batch was
\* submitted and every one of its tasks has ended and had its result taken;
\* after the last batch the two lists hold the file of every task.
C8_JoinBarrier ==
    InJob =>
      /\ (pc \in AfterStateBatch =>
             /\ Cardinality(Batch(jobs, "state")) = Len(schema.states)
             /\ \A i \in Batch(jobs, "state") : jobs[i].st = "done" /\ i \in collected)
      /\ (pc \in AfterAllBatches =>
             /\ Cardinality(Batch(jobs, "country")) = Len(schema.countries)
             /\ \A i \in 1..Len(jobs) :
                   /\ jobs[i].st = "done"
                   /\ i \in collected
                   /\ Output(jobs[i]) \in
                         Range(sub_sampling_target_states) \cup Range(sub_sampling_files)
             /\ Len(sub_sampling_target_states) + Len(sub_sampling_files) >= Len(jobs))

C8_Witness ==
    /\ InJob /\ pc = "outgroup"
    /\ Len(schema.states) >= 2
    /\ schema.countries # <<>>
    /\ threads >= 2
    /\ finished[1] = 2

ExpectedTargetList ==
    LET T == SelectSeq(schema.states, LAMBDA x : x.sigla \in schema.target_states)
    IN [i \in 1..Len(T) |-> StateFile(T[i].sigla)]

ExpectedFilesList ==
    LET B == SelectSeq(schema.states, LAMBDA x : x.sigla \notin schema.target_states)
    IN [i \in 1..Len(B) |-> StateFile(B[i].sigla)]
         \o [i \in 1..Len(schema.countries) |-> CountryFile(schema.countries[i].sigla)]
         \o <<OutgroupFile>>

\* C9: the two lists get_samples builds are a function of the schema alone:
\* the files of the strata in schema order, whatever order the tasks ended in.
C9_ListsDependOnSchemaOnly ==
    (InJob /\ pc \in ListsBuilt)
        => /\ sub_sampling_target_states = ExpectedTargetList
           /\ sub_sampling_files = ExpectedFilesList

C9_Witness ==
    /\ InJob /\ pc = "done"
    /\ Len(finished) >= 2
    /\ finished[1] = 2 /\ finished[2] = 1
    /\ Output(jobs[1]) # Output(jobs[2])
    /\ ~IsTarget(jobs[1], schema) /\ ~IsTarget(jobs[2], schema)

\* C10 as stated: no two stratum tasks running at the same time write the
\* same identifier file.
C10_NoSharedOutputFile ==
    \A i, j \in 1..Len(jobs) :
        (i # j /\ jobs[i].st = "running" /\ jobs[j].st = "running")
            => Output(jobs[i]) # Output(jobs[j])

Next ==
    \/ CheckInputs
    \/ ValidateSchema
    \/ sanitize_sequences
    \/ sanitize_metadata
    \/ Submit
    \/ \E i \in 1..(MaxStates + MaxCountries) : StartTask(i)
    \/ \E i \in 1..(MaxStates + MaxCountries) : TaskOk(i)
    \/ \E i \in 1..(MaxStates + MaxCountries) : TaskStatus(i)
    \/ \E i \in 1..(MaxStates + MaxCountries) : TaskRaise(i)
    \/ \E i \in 1..(MaxStates + MaxCountries) : Collect(i)
    \/ ExecutorExit
    \/ filter_outgroup
    \/ MaterializeTarget
    \/ MaterializeCombined
    \/ filter_gisaid
    \/ get_global
    \/ SimCheckInputs
    \/ SimValidateSchema
    \/ create_blast_database
    \/ perform_blast
    \/ filter_blast_results

Spec == Init /\ [][Next]_vars
====
